---- MODULE Spec2Model ----
(***************************************************************************)
(* The renderer process of the Electron quiz application: the CSV loader,  *)
(* the quiz state (questions, position, score, answered marks), the answer *)
(* timer and the file-dialog guard, as one state machine driven by the     *)
(* events the page can receive (button clicks, the group selector, the     *)
(* file picker's reply, the CSV stream's data/end/error events).           *)
(*                                                                         *)
(* JavaScript strings are sequences of one-character strings, so that      *)
(* trim() and toUpperCase() are computed and not assumed.  Question        *)
(* objects are shared by reference between `questions` and `allQuestions`; *)
(* each carries an object identity `oid`, and the mutable property         *)
(* userAnswered is the set of the oids that carry it.                      *)
(***************************************************************************)
EXTENDS Integers, Sequences, FiniteSets, TLC

VARIABLES
  questions,             \* the active (possibly filtered) question array
  allQuestions,          \* the copy of the loaded set kept for filtering
  currentQuestionIndex,  \* module-level index, 0-based as in the source
  correctCount,
  incorrectCount,
  userAnswered,          \* oids of the question objects with userAnswered = true
  timerInterval,         \* NULL or the id of the interval startTimer created
  timerElapsed,          \* whole seconds the timer shows
  intervals,             \* ids of the intervals the page has scheduled and not cleared
  rendered,              \* the #question / #options part of the page
  feedback,              \* the paragraphs held by #feedback
  groupOptions,          \* the <option> values of #groupSelect, in order
  groupValue,            \* the selected value of #groupSelect
  isDialogOpen,          \* state.isDialogOpen
  ipcPending,            \* ipcRenderer.invoke('select-csv-file') calls not yet settled
  loads,                 \* loadQuestions calls whose CSV stream is still open, oldest first
  document,              \* TRUE: the global `document` is the page; FALSE: it is undefined
  ipcRenderer,           \* TRUE: require('electron') gave an ipcRenderer; FALSE: it is undefined
  clicked,               \* history: oids whose option button the user pressed since the set was installed
  last                   \* history: the handler that ran last and what it did

quizVars == <<questions, allQuestions, currentQuestionIndex, correctCount,
              incorrectCount, userAnswered, timerInterval, timerElapsed,
              intervals, rendered, feedback, groupOptions, groupValue>>

vars == <<questions, allQuestions, currentQuestionIndex, correctCount,
          incorrectCount, userAnswered, timerInterval, timerElapsed,
          intervals, rendered, feedback, groupOptions, groupValue,
          isDialogOpen, ipcPending, loads, document, ipcRenderer, clicked, last>>

\* what the module finds in its environment; no code of the module assigns it
envVars == <<document, ipcRenderer>>

----------------------------------------------------------------------------
(* Bounds of the exploration. *)

\* rows per CSV file
MaxRows == 2
\* option clicks counted by the score before the exploration stops clicking
MaxAnswers == 2
\* rows of a file in SpecQuiz
MaxGroupRows == 3
\* seconds the answer timer counts before the exploration stops the clock
MaxSeconds == 2

----------------------------------------------------------------------------
(* Strings. *)

NULL == 0

IsSpace(c) == c \in {" ", "\t"}

RECURSIVE trimStart(_)
trimStart(s) ==
  IF s = <<>> THEN <<>>
  ELSE IF IsSpace(Head(s)) THEN trimStart(Tail(s)) ELSE s

RECURSIVE trimEnd(_)
trimEnd(s) ==
  IF s = <<>> THEN <<>>
  ELSE IF IsSpace(s[Len(s)]) THEN trimEnd(SubSeq(s, 1, Len(s) - 1)) ELSE s

\* String.prototype.trim
trim(s) == trimEnd(trimStart(s))

upperChar(c) ==
  CASE c = "a" -> "A"
    [] c = "b" -> "B"
    [] c = "c" -> "C"
    [] c = "d" -> "D"
    [] c = "e" -> "E"
    [] c = "z" -> "Z"
    [] OTHER -> c

\* String.prototype.toUpperCase
toUpperCase(s) == [i \in 1..Len(s) |-> upperChar(s[i])]

letters == << <<"A">>, <<"B">>, <<"C">>, <<"D">> >>

validAnswers == << <<"A">>, <<"B">>, <<"C">>, <<"D">> >>

\* Array.prototype.includes
includes(arr, x) == \E i \in 1..Len(arr) : arr[i] = x

\* Array.prototype.indexOf, 0-based, -1 when absent
indexOf(arr, x) ==
  IF includes(arr, x)
  THEN (CHOOSE i \in 1..Len(arr) : arr[i] = x /\ \A j \in 1..(i - 1) : arr[j] # x) - 1
  ELSE -1

All == <<"A", "l", "l">>

\* The notice the end handler writes into #feedback.
NoValidQuestions == "No valid questions found in CSV file. Please check the file format."

----------------------------------------------------------------------------
(* The program state as one record, so that a handler is the composition   *)
(* of the functions it calls.                                              *)

State ==
  [ questions |-> questions, allQuestions |-> allQuestions,
    currentQuestionIndex |-> currentQuestionIndex,
    correctCount |-> correctCount, incorrectCount |-> incorrectCount,
    userAnswered |-> userAnswered,
    timerInterval |-> timerInterval, timerElapsed |-> timerElapsed,
    intervals |-> intervals,
    rendered |-> rendered, feedback |-> feedback,
    groupOptions |-> groupOptions, groupValue |-> groupValue,
    document |-> document ]

oidsOf(qs) == {qs[i].oid : i \in 1..Len(qs)}

\* The question objects still referenced by the module's arrays.
live(s) == oidsOf(s.questions) \cup oidsOf(s.allQuestions)

\* An object literal creates a new object: an identity no reachable object has.
newOid(s) ==
  LET used == live(s) \cup {s.rendered.oid}
  IN  CHOOSE n \in 1..(Cardinality(used) + 1) : n \notin used

\* Properties of unreachable objects are dropped with the objects.
collect(s) == [s EXCEPT !.userAnswered = @ \cap live(s)]

Commit(s) ==
  LET t == collect(s) IN
  /\ questions' = t.questions
  /\ allQuestions' = t.allQuestions
  /\ currentQuestionIndex' = t.currentQuestionIndex
  /\ correctCount' = t.correctCount
  /\ incorrectCount' = t.incorrectCount
  /\ userAnswered' = t.userAnswered
  /\ timerInterval' = t.timerInterval
  /\ timerElapsed' = t.timerElapsed
  /\ intervals' = t.intervals
  /\ rendered' = t.rendered
  /\ feedback' = t.feedback
  /\ groupOptions' = t.groupOptions
  /\ groupValue' = t.groupValue

----------------------------------------------------------------------------
(* The answer timer. *)

\* updateTimerDisplay(seconds) begins with document.getElementById: a
\* TypeError when document is undefined.  The text it writes is not part of
\* the state.
updateTimerDisplay(s) == [s |-> s, threw |-> ~s.document]

\* stopTimer that forgets the interval without clearing it
stopTimer_NoClear(s) ==
  IF s.timerInterval # NULL
  THEN [s EXCEPT !.timerInterval = NULL]
  ELSE s

stopTimer(s) ==
  IF s.timerInterval # NULL
  THEN [s EXCEPT !.intervals = @ \ {s.timerInterval}, !.timerInterval = NULL]
  ELSE s

\* setInterval returns an id no scheduled interval has.
newInterval(s) == CHOOSE n \in 1..(Cardinality(s.intervals) + 1) : n \notin s.intervals

\* startTimer without its stopTimer() call
startTimer_NoStop(s) ==
  LET t == [s EXCEPT !.timerElapsed = 0] IN
  IF updateTimerDisplay(t).threw THEN t
  ELSE LET id == newInterval(t)
       IN  [t EXCEPT !.timerInterval = id, !.intervals = @ \cup {id}]

\* The state startTimer leaves; when updateTimerDisplay(0) throws, setInterval
\* is not reached.
startTimer(s) ==
  LET t == [stopTimer(s) EXCEPT !.timerElapsed = 0] IN
  IF updateTimerDisplay(t).threw THEN t
  ELSE LET id == newInterval(t)
       IN  [t EXCEPT !.timerInterval = id, !.intervals = @ \cup {id}]

\* The state resetTimer leaves (the display is not part of the state).
resetTimer(s) == [stopTimer(s) EXCEPT !.timerElapsed = 0]

----------------------------------------------------------------------------
(* Rendering and scoring. *)

\* #question and #options after their innerHTML was cleared.
NoRender ==
  [ oid |-> 0, questionText |-> <<>>, buttons |-> <<>>,
    correctAnswer |-> <<>>, disabled |-> FALSE ]

\* updateCounter() begins with document.getElementById: a TypeError when
\* document is undefined.  The score card it writes is not part of the state.
updateCounter(s) == [s |-> s, threw |-> ~s.document]

\* resetScore that also deletes the answered marks of the active set
resetScore_ClearsMarks(s) ==
  [s EXCEPT !.correctCount = 0, !.incorrectCount = 0,
            !.userAnswered = @ \ oidsOf(s.questions)]

\* The state resetScore leaves; its last statement is updateCounter().
resetScore(s) == [s EXCEPT !.correctCount = 0, !.incorrectCount = 0]

\* displayQuestion that starts the timer for index 0 before it tests the
\* index against the length
displayQuestion_TimerFirst(s, index) ==
  IF ~s.document THEN s
  ELSE
  LET cleared == [s EXCEPT !.rendered = NoRender, !.feedback = <<>>]
      started == IF index = 0 THEN startTimer(cleared) ELSE cleared
  IN
  IF index < 0 \/ index >= Len(s.questions) THEN started
  ELSE
    LET question == s.questions[index + 1]
    IN  [started EXCEPT !.rendered =
                   [ oid |-> question.oid,
                     questionText |-> question.questionText,
                     buttons |-> [i \in 1..Len(question.options) |->
                                   [ letter |-> letters[i],
                                     text |-> letters[i] \o <<")", " ">> \o question.options[i] ]],
                     correctAnswer |-> question.correctAnswer,
                     disabled |-> FALSE ]]

displayQuestion(s, index) ==
  IF ~s.document THEN s
  ELSE
  LET cleared == [s EXCEPT !.rendered = NoRender, !.feedback = <<>>] IN
  IF index < 0 \/ index >= Len(s.questions) THEN cleared
  ELSE
    LET question == s.questions[index + 1]
        shown == [cleared EXCEPT !.rendered =
                   [ oid |-> question.oid,
                     questionText |-> question.questionText,
                     buttons |-> [i \in 1..Len(question.options) |->
                                   [ letter |-> letters[i],
                                     text |-> letters[i] \o <<")", " ">> \o question.options[i] ]],
                     correctAnswer |-> question.correctAnswer,
                     disabled |-> FALSE ]]
    IN  IF index = 0 THEN startTimer(shown) ELSE shown

\* module.exports.questions is the module's own array object (it is only
\* ever spliced and pushed to, never reassigned).
getQuestions(s) == s.questions

\* module.exports.currentQuestionIndex: the number copied into the exports
\* object when the module was loaded; no handler of the page writes it.
exportsCurrentQuestionIndex == 0

getCurrentQuestionIndex(s) ==
  IF exportsCurrentQuestionIndex \in Int
  THEN exportsCurrentQuestionIndex
  ELSE s.currentQuestionIndex

\* The texts checkAnswer hands to showFloatingMessage.
Correct == <<"Correct!">>

Incorrect == <<"Incorrect. The correct answer is: ">>

\* what a template literal prints for a missing array element
undefined == <<"undefined">>

\* checkAnswer that counts only the first answer to a question
checkAnswer_FirstOnly(s, selected, correct) ==
  IF ~s.document THEN [s |-> s, threw |-> FALSE, message |-> <<>>]
  ELSE
  LET qs  == getQuestions(s)
      idx == getCurrentQuestionIndex(s)
      has == idx >= 0 /\ idx < Len(qs)
      fresh == ~has \/ qs[idx + 1].oid \notin s.userAnswered
      s1  == [s EXCEPT !.rendered.disabled = TRUE]
  IN
  IF selected = correct
  THEN
    LET s2 == IF fresh THEN [s1 EXCEPT !.correctCount = @ + 1] ELSE s1 IN
    IF ~has THEN [s |-> s2, threw |-> TRUE, message |-> Correct]
    ELSE
      LET s3 == [s2 EXCEPT !.userAnswered = @ \cup {qs[idx + 1].oid}]
          allAnswered == Len(qs) > 0 /\ \A i \in 1..Len(qs) : qs[i].oid \in s3.userAnswered
      IN  [s |-> IF allAnswered THEN stopTimer(s3) ELSE s3, threw |-> FALSE,
           message |-> Correct]
  ELSE
    LET s2 == IF fresh THEN [s1 EXCEPT !.incorrectCount = @ + 1] ELSE s1 IN
    IF ~has THEN [s |-> s2, threw |-> TRUE, message |-> <<>>]
    ELSE
      LET correctIndex == indexOf(letters, correct)
          correctText == IF correctIndex >= 0
                         THEN qs[idx + 1].options[correctIndex + 1]
                         ELSE undefined
          s3 == [s2 EXCEPT !.userAnswered = @ \cup {qs[idx + 1].oid}]
          allAnswered == Len(qs) > 0 /\ \A i \in 1..Len(qs) : qs[i].oid \in s3.userAnswered
      IN  [s |-> IF allAnswered THEN stopTimer(s3) ELSE s3, threw |-> FALSE,
           message |-> Incorrect \o correct \o <<")", " ">> \o correctText]

\* checkAnswer without its test of document
checkAnswer_NoGuard(s, selected, correct) ==
  LET qs  == getQuestions(s)
      idx == getCurrentQuestionIndex(s)
      has == idx >= 0 /\ idx < Len(qs)
      s1  == [s EXCEPT !.rendered.disabled = TRUE]
  IN
  IF selected = correct
  THEN
    LET s2 == [s1 EXCEPT !.correctCount = @ + 1] IN
    IF ~has THEN [s |-> s2, threw |-> TRUE, message |-> Correct]
    ELSE
      LET s3 == [s2 EXCEPT !.userAnswered = @ \cup {qs[idx + 1].oid}]
          allAnswered == Len(qs) > 0 /\ \A i \in 1..Len(qs) : qs[i].oid \in s3.userAnswered
      IN  [s |-> IF allAnswered THEN stopTimer(s3) ELSE s3, threw |-> FALSE,
           message |-> Correct]
  ELSE
    LET s2 == [s1 EXCEPT !.incorrectCount = @ + 1] IN
    IF ~has THEN [s |-> s2, threw |-> TRUE, message |-> <<>>]
    ELSE
      LET correctIndex == indexOf(letters, correct)
          correctText == IF correctIndex >= 0
                         THEN qs[idx + 1].options[correctIndex + 1]
                         ELSE undefined
          s3 == [s2 EXCEPT !.userAnswered = @ \cup {qs[idx + 1].oid}]
          allAnswered == Len(qs) > 0 /\ \A i \in 1..Len(qs) : qs[i].oid \in s3.userAnswered
      IN  [s |-> IF allAnswered THEN stopTimer(s3) ELSE s3, threw |-> FALSE,
           message |-> Incorrect \o correct \o <<")", " ">> \o correctText]

\* The result is the state the call leaves, whether it threw, and the text
\* it handed to showFloatingMessage (<<>> when it showed none).
checkAnswer(s, selected, correct) ==
  IF ~s.document THEN [s |-> s, threw |-> FALSE, message |-> <<>>]
  ELSE
  LET qs  == getQuestions(s)
      idx == getCurrentQuestionIndex(s)
      has == idx >= 0 /\ idx < Len(qs)
      s1  == [s EXCEPT !.rendered.disabled = TRUE]
  IN
  IF selected = correct
  THEN
    LET s2 == [s1 EXCEPT !.correctCount = @ + 1] IN
    IF ~has THEN [s |-> s2, threw |-> TRUE, message |-> Correct]
    ELSE
      LET s3 == [s2 EXCEPT !.userAnswered = @ \cup {qs[idx + 1].oid}]
          allAnswered == Len(qs) > 0 /\ \A i \in 1..Len(qs) : qs[i].oid \in s3.userAnswered
      IN  [s |-> IF allAnswered THEN stopTimer(s3) ELSE s3, threw |-> FALSE,
           message |-> Correct]
  ELSE
    LET s2 == [s1 EXCEPT !.incorrectCount = @ + 1] IN
    IF ~has THEN [s |-> s2, threw |-> TRUE, message |-> <<>>]
    ELSE
      LET correctIndex == indexOf(letters, correct)
          correctText == IF correctIndex >= 0
                         THEN qs[idx + 1].options[correctIndex + 1]
                         ELSE undefined
          s3 == [s2 EXCEPT !.userAnswered = @ \cup {qs[idx + 1].oid}]
          allAnswered == Len(qs) > 0 /\ \A i \in 1..Len(qs) : qs[i].oid \in s3.userAnswered
      IN  [s |-> IF allAnswered THEN stopTimer(s3) ELSE s3, threw |-> FALSE,
           message |-> Incorrect \o correct \o <<")", " ">> \o correctText]

----------------------------------------------------------------------------
(* The CSV loader.  A row is what csv-parser hands to the 'data' handler:  *)
(* the cells of one line, keyed by position through `headers`.             *)

headers == <<"questionText", "option1", "option2", "option3", "option4",
             "correctAnswer", "group">>

\* row[name]; a cell the line does not have is undefined, which the handler
\* only ever tests for truthiness, exactly like the empty string.
field(row, name) ==
  LET i == indexOf(headers, name) + 1
  IN  IF i <= Len(row) THEN row[i] ELSE <<>>

\* JavaScript truthiness of a string-or-undefined value.
truthy(v) == v # <<>>

\* dataHandler that displays the first question as soon as it is parsed
dataHandler_RenderFirst(s, row) ==
  IF \/ ~truthy(field(row, "questionText"))
     \/ ~truthy(field(row, "option1"))
     \/ ~truthy(field(row, "option2"))
     \/ ~truthy(field(row, "option3"))
     \/ ~truthy(field(row, "option4"))
     \/ ~truthy(field(row, "correctAnswer"))
  THEN s
  ELSE
    LET correct == toUpperCase(trim(field(row, "correctAnswer"))) IN
    IF ~includes(validAnswers, correct) THEN s
    ELSE
      LET pushed == [s EXCEPT !.questions = Append(@,
            [ oid |-> newOid(s),
              questionText |-> trim(field(row, "questionText")),
              options |-> << trim(field(row, "option1")), trim(field(row, "option2")),
                             trim(field(row, "option3")), trim(field(row, "option4")) >>,
              correctAnswer |-> correct,
              group |-> IF truthy(field(row, "group"))
                        THEN trim(field(row, "group")) ELSE All ])]
      IN  IF Len(pushed.questions) = 1 THEN displayQuestion(pushed, 0) ELSE pushed

\* dataHandler without the validAnswers test
dataHandler_AnyLetter(s, row) ==
  IF \/ ~truthy(field(row, "questionText"))
     \/ ~truthy(field(row, "option1"))
     \/ ~truthy(field(row, "option2"))
     \/ ~truthy(field(row, "option3"))
     \/ ~truthy(field(row, "option4"))
     \/ ~truthy(field(row, "correctAnswer"))
  THEN s
  ELSE [s EXCEPT !.questions = Append(@,
          [ oid |-> newOid(s),
            questionText |-> trim(field(row, "questionText")),
            options |-> << trim(field(row, "option1")), trim(field(row, "option2")),
                           trim(field(row, "option3")), trim(field(row, "option4")) >>,
            correctAnswer |-> toUpperCase(trim(field(row, "correctAnswer"))),
            group |-> IF truthy(field(row, "group"))
                      THEN trim(field(row, "group")) ELSE All ])]

\* dataHandler storing the answer letter as the file spells it
dataHandler_RawLetter(s, row) ==
  IF \/ ~truthy(field(row, "questionText"))
     \/ ~truthy(field(row, "option1"))
     \/ ~truthy(field(row, "option2"))
     \/ ~truthy(field(row, "option3"))
     \/ ~truthy(field(row, "option4"))
     \/ ~truthy(field(row, "correctAnswer"))
  THEN s
  ELSE
    LET correct == toUpperCase(trim(field(row, "correctAnswer"))) IN
    IF ~includes(validAnswers, correct) THEN s
    ELSE [s EXCEPT !.questions = Append(@,
            [ oid |-> newOid(s),
              questionText |-> trim(field(row, "questionText")),
              options |-> << trim(field(row, "option1")), trim(field(row, "option2")),
                             trim(field(row, "option3")), trim(field(row, "option4")) >>,
              correctAnswer |-> field(row, "correctAnswer"),
              group |-> IF truthy(field(row, "group"))
                        THEN trim(field(row, "group")) ELSE All ])]

dataHandler(s, row) ==
  IF \/ ~truthy(field(row, "questionText"))
     \/ ~truthy(field(row, "option1"))
     \/ ~truthy(field(row, "option2"))
     \/ ~truthy(field(row, "option3"))
     \/ ~truthy(field(row, "option4"))
     \/ ~truthy(field(row, "correctAnswer"))
  THEN s
  ELSE
    LET correct == toUpperCase(trim(field(row, "correctAnswer"))) IN
    IF ~includes(validAnswers, correct) THEN s
    ELSE [s EXCEPT !.questions = Append(@,
            [ oid |-> newOid(s),
              questionText |-> trim(field(row, "questionText")),
              options |-> << trim(field(row, "option1")), trim(field(row, "option2")),
                             trim(field(row, "option3")), trim(field(row, "option4")) >>,
              correctAnswer |-> correct,
              group |-> IF truthy(field(row, "group"))
                        THEN trim(field(row, "group")) ELSE All ])]

\* uniqueGroups as an array instead of a Set: every label is appended
RECURSIVE uniqueGroups_NoDedup(_, _)
uniqueGroups_NoDedup(questionsArray, acc) ==
  IF questionsArray = <<>> THEN acc
  ELSE
    LET g == Head(questionsArray).group IN
    uniqueGroups_NoDedup(Tail(questionsArray),
                         IF truthy(g) /\ g # All THEN Append(acc, g) ELSE acc)

\* The insertion order of a Set of the group labels, "All" and "" left out.
RECURSIVE uniqueGroups(_, _)
uniqueGroups(questionsArray, acc) ==
  IF questionsArray = <<>> THEN acc
  ELSE
    LET g == Head(questionsArray).group IN
    uniqueGroups(Tail(questionsArray),
                 IF truthy(g) /\ g # All /\ ~includes(acc, g) THEN Append(acc, g) ELSE acc)

\* Rebuilds the <option> list; a rebuilt <select> shows its first option.
\* The 'change' listener it adds is the handler groupSelectChange below.
populateGroupDropdown(s, questionsArray) ==
  IF ~s.document THEN s
  ELSE
  [s EXCEPT !.groupOptions = <<All>> \o uniqueGroups(questionsArray, <<>>),
            !.groupValue = All]

\* changeListener that also deletes the answered marks of the loaded set
changeListener_ClearsMarks(s) ==
  LET selectedGroup == s.groupValue
      picked == IF selectedGroup = All
                THEN s.allQuestions
                ELSE SelectSeq(s.allQuestions, LAMBDA q : q.group = selectedGroup)
      s1 == [s EXCEPT !.questions = picked, !.currentQuestionIndex = 0,
                      !.userAnswered = @ \ oidsOf(s.allQuestions)]
      s2 == resetScore(s1)
      s3 == displayQuestion(s2, s2.currentQuestionIndex)
  IN  startTimer(s3)

\* changeListener without its resetScore() call
changeListener_KeepScore(s) ==
  LET selectedGroup == s.groupValue
      picked == IF selectedGroup = All
                THEN s.allQuestions
                ELSE SelectSeq(s.allQuestions, LAMBDA q : q.group = selectedGroup)
      s1 == [s EXCEPT !.questions = picked, !.currentQuestionIndex = 0]
      s3 == displayQuestion(s1, s1.currentQuestionIndex)
  IN  startTimer(s3)

\* changeListener that shows every question whatever the label
changeListener_NoFilter(s) ==
  LET s1 == [s EXCEPT !.questions = s.allQuestions, !.currentQuestionIndex = 0]
      s2 == resetScore(s1)
      s3 == displayQuestion(s2, s2.currentQuestionIndex)
  IN  startTimer(s3)

\* changeListener that leaves the active set alone when "All" is picked
changeListener_AllKeeps(s) ==
  LET selectedGroup == s.groupValue
      picked == IF selectedGroup = All
                THEN s.questions
                ELSE SelectSeq(s.allQuestions, LAMBDA q : q.group = selectedGroup)
      s1 == [s EXCEPT !.questions = picked, !.currentQuestionIndex = 0]
      s2 == resetScore(s1)
      s3 == displayQuestion(s2, s2.currentQuestionIndex)
  IN  startTimer(s3)

\* The 'change' listener of #groupSelect, run with the value the user picked
\* already in groupSelect.value.
changeListener(s) ==
  LET selectedGroup == s.groupValue
      picked == IF selectedGroup = All
                THEN s.allQuestions
                ELSE SelectSeq(s.allQuestions, LAMBDA q : q.group = selectedGroup)
      s1 == [s EXCEPT !.questions = picked, !.currentQuestionIndex = 0]
      s2 == resetScore(s1)
      s3 == displayQuestion(s2, s2.currentQuestionIndex)
  IN  startTimer(s3)

\* endHandler that rejects an empty result instead of reporting it
endHandler_RejectEmpty(s) ==
  IF Len(s.questions) = 0
  THEN [s |-> s, promise |-> "rejected"]
  ELSE
    LET s1 == [s EXCEPT !.allQuestions = s.questions]
        s2 == populateGroupDropdown(s1, s1.allQuestions)
    IN  [s |-> displayQuestion(s2, s2.currentQuestionIndex), promise |-> "resolved"]

\* The 'end' handler: the state it leaves and what it does to the promise.
endHandler(s) ==
  IF Len(s.questions) = 0
  THEN [s |-> [s EXCEPT !.feedback = <<NoValidQuestions>>], promise |-> "resolved"]
  ELSE
    LET s1 == [s EXCEPT !.allQuestions = s.questions]
        s2 == populateGroupDropdown(s1, s1.allQuestions)
    IN  [s |-> displayQuestion(s2, s2.currentQuestionIndex), promise |-> "resolved"]

\* The 'error' handler.
errorHandler(s) == [s |-> s, promise |-> "rejected"]

\* loadQuestions whose catch block returns without rejecting
loadQuestions_NoReject(s, file) ==
  LET s1 == [s EXCEPT !.questions = <<>>, !.allQuestions = <<>>,
                      !.currentQuestionIndex = 0,
                      !.correctCount = 0, !.incorrectCount = 0]
      s2 == [s1 EXCEPT !.userAnswered = @ \ oidsOf(s1.questions)]
  IN  IF updateCounter(s1).threw
      THEN [s |-> s1, promise |-> "rejected", stream |-> FALSE]
      ELSE IF ~file.readable
      THEN [s |-> s2, promise |-> "pending", stream |-> FALSE]
      ELSE [s |-> s2, promise |-> "pending", stream |-> TRUE]

\* loadQuestions that keeps the score of the previous set
loadQuestions_KeepScore(s, file) ==
  LET s1 == [s EXCEPT !.questions = <<>>, !.allQuestions = <<>>,
                      !.currentQuestionIndex = 0]
      s2 == [s1 EXCEPT !.userAnswered = @ \ oidsOf(s1.questions)]
  IN  IF updateCounter(s1).threw
      THEN [s |-> s1, promise |-> "rejected", stream |-> FALSE]
      ELSE IF ~file.readable
      THEN [s |-> s2, promise |-> "rejected", stream |-> FALSE]
      ELSE [s |-> s2, promise |-> "pending", stream |-> TRUE]

\* The synchronous part of loadQuestions(csvPath): the reset, then
\* readFileSync.  An exception thrown in the executor, as updateCounter()
\* does when document is undefined, rejects the promise.  The result is the state it leaves and the state of the
\* promise it returns.
loadQuestions(s, file) ==
  LET s1 == [s EXCEPT !.questions = <<>>, !.allQuestions = <<>>,
                      !.currentQuestionIndex = 0,
                      !.correctCount = 0, !.incorrectCount = 0]
      \* questions.forEach(q => delete q.userAnswered) runs over the array
      \* as it is now
      s2 == [s1 EXCEPT !.userAnswered = @ \ oidsOf(s1.questions)]
  IN  IF updateCounter(s1).threw
      THEN [s |-> s1, promise |-> "rejected", stream |-> FALSE]
      ELSE IF ~file.readable
      THEN [s |-> s2, promise |-> "rejected", stream |-> FALSE]
      ELSE [s |-> s2, promise |-> "pending", stream |-> TRUE]

----------------------------------------------------------------------------
(* The files the user can pick.  A file is readable or not (readFileSync   *)
(* throws) and holds the rows csv-parser will deliver.                     *)

Unreadable == [readable |-> FALSE, rows |-> <<>>]

rowMath == << <<"p">>, <<"1">>, <<"2">>, <<"3">>, <<"4">>, <<"A">>, <<"m">> >>
rowGeo == << <<" ", "q">>, <<"5">>, <<"6">>, <<"7">>, <<"8">>, <<"b">>, <<"g">> >>
rowNoGroup == << <<"r">>, <<"1">>, <<"2">>, <<"3">>, <<"4">>, <<"C">> >>
rowShort == << <<"s">>, <<"1">> >>

Cycle(p, n) == [i \in 1..n |-> p[((i - 1) % Len(p)) + 1]]

\* The quiz is played on the files of up to MaxRows valid rows, two groups
\* alternating, on two files that start with a malformed row, and on a file
\* that cannot be read.
Files ==
  {[readable |-> TRUE, rows |-> Cycle(<<rowMath, rowGeo>>, n)] : n \in 0..MaxRows}
  \cup {[readable |-> TRUE, rows |-> <<rowShort>>],
        [readable |-> TRUE, rows |-> <<rowShort, rowNoGroup>>],
        Unreadable}

\* The loader is exercised on every one-row file whose row differs from a
\* well-formed row in one cell or is cut short, and on every file of up to
\* MaxRows rows of MixRows.
baseRow == << <<"p">>, <<"1">>, <<"2">>, <<"3">>, <<"4">>, <<"A">>, <<"m">> >>

TextCells == { <<" ", "x", " ">>, <<" ">>, <<>> }

LetterCells == { <<"b">>, <<" ", "c">>, <<"D", " ">>, <<"e">>, <<"A", "B">>, <<" ">>, <<>> }

GroupCells == { <<" ", "g", " ">>, <<" ">>, <<>>, <<"A", "l", "l">> }

\* rows to mix in one file: three valid ones, three malformed ones
MixRows ==
  { baseRow,
    [baseRow EXCEPT ![6] = <<"b">>],
    [baseRow EXCEPT ![7] = <<>>],
    [baseRow EXCEPT ![6] = <<"e">>],
    [baseRow EXCEPT ![3] = <<>>],
    SubSeq(baseRow, 1, 5) }

RichRows ==
  {baseRow}
  \cup {[baseRow EXCEPT ![i] = c] : i \in 1..5, c \in TextCells}
  \cup {[baseRow EXCEPT ![6] = c] : c \in LetterCells}
  \cup {[baseRow EXCEPT ![7] = c] : c \in GroupCells}
  \cup {SubSeq(baseRow, 1, n) : n \in 0..6}

SeqsUpTo(S, n) == UNION {[1..k -> S] : k \in 0..n}

RichFiles ==
  {[readable |-> TRUE, rows |-> <<r>>] : r \in RichRows}
  \cup {[readable |-> TRUE, rows |-> rs] : rs \in SeqsUpTo(MixRows, MaxRows)}
  \cup {Unreadable}

\* What ipcRenderer.invoke('select-csv-file') settles with: a path, null
\* (the dialog was cancelled) or a rejection.
RepliesOf(F) ==
  {[kind |-> "path", file |-> f] : f \in F}
  \cup {[kind |-> "null", file |-> Unreadable], [kind |-> "error", file |-> Unreadable]}

----------------------------------------------------------------------------
(* History of the last handler, for stating the claims. *)

NoLoad == [file |-> Unreadable, pos |-> 0, alone |-> TRUE, quiet |-> TRUE, latest |-> Unreadable]

\* op: the handler or call; promise: the state of the promise it returned
\* ("none" when it returns no promise); invoked: it called ipcRenderer.invoke;
\* threw: it ended by an exception; index: the argument of displayQuestion;
\* match: checkAnswer was called with selected = correct; message: the text
\* it handed to showFloatingMessage; load: the loadQuestions call concerned
\* (its file, the rows delivered, whether it ran alone and undisturbed, and
\* the file of the latest loadQuestions call made up to its end).
Ev(op) ==
  [ op |-> op, promise |-> "none", invoked |-> FALSE, threw |-> FALSE,
    index |-> 0, match |-> FALSE, message |-> <<>>, load |-> NoLoad ]

\* another loadQuestions call, for `file`, ran while these streams were open
overlapped(ls, file) ==
  [k \in 1..Len(ls) |-> [ls[k] EXCEPT !.alone = FALSE, !.latest = file]]

\* a user event changed the quiz while these streams were open
disturbed(ls) == [k \in 1..Len(ls) |-> [ls[k] EXCEPT !.quiet = FALSE]]

remove(ls, k) == SubSeq(ls, 1, k - 1) \o SubSeq(ls, k + 1, Len(ls))

----------------------------------------------------------------------------
(* Initial state: the module has been loaded and initialize() has run. *)

Init ==
  /\ questions = <<>>
  /\ allQuestions = <<>>
  /\ currentQuestionIndex = 0
  /\ correctCount = 0
  /\ incorrectCount = 0
  /\ userAnswered = {}
  /\ timerInterval = NULL
  /\ timerElapsed = 0
  /\ intervals = {}
  /\ rendered = NoRender
  /\ feedback = <<>>
  /\ groupOptions = <<>>
  /\ groupValue = <<>>
  /\ isDialogOpen = FALSE
  /\ ipcPending = 0
  /\ loads = <<>>
  /\ document = TRUE
  /\ ipcRenderer \in BOOLEAN
  /\ clicked = {}
  /\ last = Ev("init")

----------------------------------------------------------------------------
(* The handlers. *)

\* selectCSVFile without the isDialogOpen test
selectCSVFile_NoGuard ==
  /\ UNCHANGED envVars
  /\ IF ~ipcRenderer
     THEN /\ UNCHANGED <<isDialogOpen, ipcPending>>
          /\ last' = [Ev("selectCSVFile") EXCEPT !.promise = "resolved"]
     ELSE /\ isDialogOpen' = TRUE
          /\ ipcPending' = ipcPending + 1
          /\ last' = [Ev("selectCSVFile") EXCEPT !.invoked = TRUE, !.promise = "pending"]
  /\ UNCHANGED <<quizVars, loads, clicked>>

\* click on #selectCsvBtn: selectCSVFile() up to its await
selectCSVFile ==
  /\ UNCHANGED envVars
  /\ IF ~ipcRenderer \/ isDialogOpen
     THEN /\ UNCHANGED <<isDialogOpen, ipcPending>>
          /\ last' = [Ev("selectCSVFile") EXCEPT !.promise = "resolved"]
     ELSE /\ isDialogOpen' = TRUE
          /\ ipcPending' = ipcPending + 1
          /\ last' = [Ev("selectCSVFile") EXCEPT !.invoked = TRUE, !.promise = "pending"]
  /\ UNCHANGED <<quizVars, loads, clicked>>

\* selectCSVFile without its test of filePath: loadQuestions is called with
\* whatever the picker returned
selectCSVFileResume_NoPathTest(reply, cap) ==
  /\ UNCHANGED envVars
  /\ ipcPending > 0
  /\ reply.kind = "path" => Len(loads) < cap
  /\ ipcPending' = ipcPending - 1
  /\ isDialogOpen' = FALSE
  /\ IF reply.kind \in {"path", "null"}
     THEN LET r  == loadQuestions(State, reply.file)
              ld == [file |-> reply.file, pos |-> 0, alone |-> loads = <<>>, quiet |-> TRUE,
                     latest |-> reply.file]
          IN  /\ Commit(r.s)
              /\ loads' = IF r.stream THEN Append(overlapped(loads, reply.file), ld)
                          ELSE overlapped(loads, reply.file)
              /\ clicked' = {}
              /\ last' = IF reply.kind = "path"
                         THEN [Ev("loadQuestions") EXCEPT !.promise = r.promise, !.load = ld]
                         ELSE [Ev("dialogCancelled") EXCEPT !.promise = "resolved"]
     ELSE /\ UNCHANGED <<quizVars, loads, clicked>>
          /\ last' = [Ev("dialogFailed") EXCEPT !.promise = "resolved"]

\* selectCSVFile without its finally block: the flag is cleared only when
\* the await returns
selectCSVFileResume_NoFinally(reply, cap) ==
  /\ UNCHANGED envVars
  /\ ipcPending > 0
  /\ reply.kind = "path" => Len(loads) < cap
  /\ ipcPending' = ipcPending - 1
  /\ isDialogOpen' = (reply.kind = "error")
  /\ IF reply.kind = "path"
     THEN LET r  == loadQuestions(State, reply.file)
              ld == [file |-> reply.file, pos |-> 0, alone |-> loads = <<>>, quiet |-> TRUE,
                     latest |-> reply.file]
          IN  /\ Commit(r.s)
              /\ loads' = IF r.stream THEN Append(overlapped(loads, reply.file), ld)
                          ELSE overlapped(loads, reply.file)
              /\ clicked' = {}
              /\ last' = [Ev("loadQuestions") EXCEPT !.promise = r.promise, !.load = ld]
     ELSE /\ UNCHANGED <<quizVars, loads, clicked>>
          /\ last' = [Ev(IF reply.kind = "null" THEN "dialogCancelled" ELSE "dialogFailed")
                        EXCEPT !.promise = "resolved"]

\* The file picker's reply arrives: selectCSVFile() from its await to its
\* end.  `cap` bounds the streams open at the same time.
selectCSVFileResume(reply, cap) ==
  /\ UNCHANGED envVars
  /\ ipcPending > 0
  /\ reply.kind = "path" => Len(loads) < cap
  /\ ipcPending' = ipcPending - 1
  /\ isDialogOpen' = FALSE
  /\ IF reply.kind = "path"
     THEN LET r  == loadQuestions(State, reply.file)
              ld == [file |-> reply.file, pos |-> 0, alone |-> loads = <<>>, quiet |-> TRUE,
                     latest |-> reply.file]
          IN  /\ Commit(r.s)
              /\ loads' = IF r.stream THEN Append(overlapped(loads, reply.file), ld)
                          ELSE overlapped(loads, reply.file)
              /\ clicked' = {}
              /\ last' = [Ev("loadQuestions") EXCEPT !.promise = r.promise, !.load = ld]
     ELSE /\ UNCHANGED <<quizVars, loads, clicked>>
          /\ last' = [Ev(IF reply.kind = "null" THEN "dialogCancelled" ELSE "dialogFailed")
                        EXCEPT !.promise = "resolved"]

\* 'data' event of the k-th open stream
onData(k) ==
  /\ UNCHANGED envVars
  /\ k \in 1..Len(loads)
  /\ loads[k].pos < Len(loads[k].file.rows)
  /\ Commit(dataHandler(State, loads[k].file.rows[loads[k].pos + 1]))
  /\ loads' = [j \in 1..Len(loads) |->
                 IF j = k THEN [loads[j] EXCEPT !.pos = @ + 1]
                 ELSE [loads[j] EXCEPT !.alone = FALSE]]
  /\ last' = Ev("data")
  /\ UNCHANGED <<isDialogOpen, ipcPending, clicked>>

\* 'end' event of the k-th open stream
onEnd(k) ==
  /\ UNCHANGED envVars
  /\ k \in 1..Len(loads)
  /\ loads[k].pos = Len(loads[k].file.rows)
  /\ LET r == endHandler(State)
     IN  /\ Commit(r.s)
         /\ last' = [Ev("end") EXCEPT !.promise = r.promise, !.load = loads[k]]
  /\ loads' = remove(loads, k)
  /\ UNCHANGED <<isDialogOpen, ipcPending, clicked>>

\* 'error' event of the k-th open stream
onError(k) ==
  /\ UNCHANGED envVars
  /\ k \in 1..Len(loads)
  /\ LET r == errorHandler(State)
     IN  /\ Commit(r.s)
         /\ last' = [Ev("error") EXCEPT !.promise = r.promise, !.load = loads[k]]
  /\ loads' = remove(loads, k)
  /\ UNCHANGED <<isDialogOpen, ipcPending, clicked>>

\* the #prevBtn listener without its test of the index
prevClick_NoBound ==
  /\ UNCHANGED envVars
  /\ Commit(displayQuestion([State EXCEPT !.currentQuestionIndex = @ - 1],
                            currentQuestionIndex - 1))
  /\ loads' = disturbed(loads)
  /\ last' = Ev("prev")
  /\ UNCHANGED <<isDialogOpen, ipcPending, clicked>>

\* click on #prevBtn
prevClick ==
  /\ UNCHANGED envVars
  /\ IF currentQuestionIndex > 0
     THEN /\ Commit(displayQuestion([State EXCEPT !.currentQuestionIndex = @ - 1],
                                    currentQuestionIndex - 1))
          /\ loads' = disturbed(loads)
     ELSE UNCHANGED <<quizVars, loads>>
  /\ last' = Ev("prev")
  /\ UNCHANGED <<isDialogOpen, ipcPending, clicked>>

\* the #nextBtn listener without its test of the index
nextClick_NoBound ==
  /\ UNCHANGED envVars
  /\ Commit(displayQuestion([State EXCEPT !.currentQuestionIndex = @ + 1],
                            currentQuestionIndex + 1))
  /\ loads' = disturbed(loads)
  /\ last' = Ev("next")
  /\ UNCHANGED <<isDialogOpen, ipcPending, clicked>>

\* click on #nextBtn
nextClick ==
  /\ UNCHANGED envVars
  /\ IF currentQuestionIndex < Len(questions) - 1
     THEN /\ Commit(displayQuestion([State EXCEPT !.currentQuestionIndex = @ + 1],
                                    currentQuestionIndex + 1))
          /\ loads' = disturbed(loads)
     ELSE UNCHANGED <<quizVars, loads>>
  /\ last' = Ev("next")
  /\ UNCHANGED <<isDialogOpen, ipcPending, clicked>>

\* click on the i-th option button of the page
optionClick(i) ==
  /\ UNCHANGED envVars
  /\ i \in 1..Len(rendered.buttons)
  /\ ~rendered.disabled
  /\ correctCount + incorrectCount < MaxAnswers
  /\ LET r == checkAnswer(State, rendered.buttons[i].letter, rendered.correctAnswer)
     IN  /\ Commit(r.s)
         /\ clicked' = (clicked \cup {rendered.oid}) \cap live(r.s)
         /\ last' = [Ev("checkAnswer") EXCEPT !.threw = r.threw, !.message = r.message,
                        !.match = (rendered.buttons[i].letter = rendered.correctAnswer)]
  /\ loads' = disturbed(loads)
  /\ UNCHANGED <<isDialogOpen, ipcPending>>

\* 'change' event of #groupSelect: the user picked another label
groupSelectChange(selectedGroup) ==
  /\ UNCHANGED envVars
  /\ includes(groupOptions, selectedGroup)
  /\ selectedGroup # groupValue
  /\ Commit(changeListener([State EXCEPT !.groupValue = selectedGroup]))
  /\ clicked' = {}
  /\ loads' = disturbed(loads)
  /\ last' = Ev("groupChange")
  /\ UNCHANGED <<isDialogOpen, ipcPending>>

----------------------------------------------------------------------------
(* Calls of the exported functions, as a program that requires the module  *)
(* makes them, and the assignment global.document = undefined such a       *)
(* program can make.                                                       *)

documentUnset ==
  /\ document
  /\ loads = <<>>
  /\ document' = FALSE
  /\ last' = Ev("documentUnset")
  /\ UNCHANGED <<quizVars, isDialogOpen, ipcPending, loads, ipcRenderer, clicked>>

displayQuestionCall(index) ==
  /\ UNCHANGED envVars
  /\ loads = <<>>
  /\ Commit(displayQuestion(State, index))
  /\ last' = [Ev("displayQuestion") EXCEPT !.index = index]
  /\ UNCHANGED <<isDialogOpen, ipcPending, loads, clicked>>

checkAnswerCall(selected, correct) ==
  /\ UNCHANGED envVars
  /\ loads = <<>>
  /\ correctCount + incorrectCount < MaxAnswers
  /\ LET r == checkAnswer(State, selected, correct)
     IN  /\ Commit(r.s)
         /\ last' = [Ev("checkAnswer") EXCEPT !.threw = r.threw, !.message = r.message,
                                              !.match = (selected = correct)]
  /\ UNCHANGED <<isDialogOpen, ipcPending, loads, clicked>>

resetScoreCall ==
  /\ UNCHANGED envVars
  /\ loads = <<>>
  /\ LET s1 == resetScore(State)
     IN  /\ Commit(s1)
         /\ last' = [Ev("resetScore") EXCEPT !.threw = updateCounter(s1).threw]
  /\ UNCHANGED <<isDialogOpen, ipcPending, loads, clicked>>

updateCounterCall ==
  /\ UNCHANGED envVars
  /\ loads = <<>>
  /\ LET r == updateCounter(State)
     IN  /\ Commit(r.s)
         /\ last' = [Ev("updateCounter") EXCEPT !.threw = r.threw]
  /\ UNCHANGED <<isDialogOpen, ipcPending, loads, clicked>>

startTimerCall ==
  /\ UNCHANGED envVars
  /\ loads = <<>>
  /\ Commit(startTimer(State))
  /\ last' = [Ev("startTimer") EXCEPT !.threw = updateTimerDisplay(startTimer(State)).threw]
  /\ UNCHANGED <<isDialogOpen, ipcPending, loads, clicked>>

stopTimerCall ==
  /\ UNCHANGED envVars
  /\ loads = <<>>
  /\ Commit(stopTimer(State))
  /\ last' = Ev("stopTimer")
  /\ UNCHANGED <<isDialogOpen, ipcPending, loads, clicked>>

resetTimerCall ==
  /\ UNCHANGED envVars
  /\ loads = <<>>
  /\ Commit(resetTimer(State))
  /\ last' = [Ev("resetTimer") EXCEPT !.threw = updateTimerDisplay(resetTimer(State)).threw]
  /\ UNCHANGED <<isDialogOpen, ipcPending, loads, clicked>>

\* The callback of an interval that is scheduled and not cleared:
\* timerElapsed becomes the whole seconds since the start, one more than at
\* the previous callback.
tick ==
  /\ UNCHANGED envVars
  /\ intervals # {}
  /\ timerElapsed < MaxSeconds
  /\ Commit([State EXCEPT !.timerElapsed = @ + 1])
  /\ last' = Ev("tick")
  /\ UNCHANGED <<isDialogOpen, ipcPending, loads, clicked>>

\* loadQuestions(csvPath) called directly
loadQuestionsCall(file, cap) ==
  /\ UNCHANGED envVars
  /\ Len(loads) < cap
  /\ LET r  == loadQuestions(State, file)
         ld == [file |-> file, pos |-> 0, alone |-> loads = <<>>, quiet |-> TRUE,
                latest |-> file]
     IN  /\ Commit(r.s)
         /\ loads' = IF r.stream THEN Append(overlapped(loads, file), ld)
                     ELSE overlapped(loads, file)
         /\ last' = [Ev("loadQuestions") EXCEPT !.promise = r.promise, !.load = ld]
  /\ clicked' = {}
  /\ UNCHANGED <<isDialogOpen, ipcPending>>

----------------------------------------------------------------------------
(* Spec: the page as the user drives it, one CSV stream open at a time.    *)

Next ==
  \/ selectCSVFile
  \/ \E reply \in RepliesOf(Files) : selectCSVFileResume(reply, 1)
  \/ onData(1)
  \/ onEnd(1)
  \/ onError(1)
  \/ prevClick
  \/ nextClick
  \/ \E i \in 1..Len(letters) : optionClick(i)
  \/ \E i \in 1..Len(groupOptions) : groupSelectChange(groupOptions[i])

Spec == Init /\ [][Next]_vars

(* SpecLoad: one load on a fresh page, the file dialog already open, over  *)
(* the rich set of files.                                                  *)

InitLoad ==
  /\ questions = <<>>
  /\ allQuestions = <<>>
  /\ currentQuestionIndex = 0
  /\ correctCount = 0
  /\ incorrectCount = 0
  /\ userAnswered = {}
  /\ timerInterval = NULL
  /\ timerElapsed = 0
  /\ intervals = {}
  /\ rendered = NoRender
  /\ feedback = <<>>
  /\ groupOptions = <<>>
  /\ groupValue = <<>>
  /\ isDialogOpen = TRUE
  /\ ipcPending = 1
  /\ loads = <<>>
  /\ document = TRUE
  /\ ipcRenderer = TRUE
  /\ clicked = {}
  /\ last = [Ev("selectCSVFile") EXCEPT !.invoked = TRUE, !.promise = "pending"]

NextLoad ==
  \/ \E reply \in RepliesOf(RichFiles) : selectCSVFileResume(reply, 1)
  \/ onData(1)
  \/ onEnd(1)
  \/ onError(1)

SpecLoad == InitLoad /\ [][NextLoad]_vars

(* SpecApi: a program that requires the module under a DOM (as the       *)
(* repository's tests do), loads a file through the picker and calls the   *)
(* exported functions; at some point it may set global.document to         *)
(* undefined.  loadQuestions is called directly only after that.           *)

NextApi ==
  \/ selectCSVFile
  \/ \E reply \in RepliesOf(Files) : selectCSVFileResume(reply, 1)
  \/ onData(1)
  \/ onEnd(1)
  \/ documentUnset
  \/ \E index \in -1..Len(questions) : displayQuestionCall(index)
  \/ \E selected \in {letters[1], letters[2]} : checkAnswerCall(selected, letters[1])
  \/ resetScoreCall
  \/ updateCounterCall
  \/ startTimerCall
  \/ stopTimerCall
  \/ resetTimerCall
  \/ \E f \in Files : ~document /\ loadQuestionsCall(f, 1)

SpecApi == InitLoad /\ [][NextApi]_vars

(* SpecTimer: the page with the clock running.  The user loads files of   *)
(* up to MaxRows valid rows through the picker (opened when no stream is   *)
(* open), moves, answers and filters at any time, and the interval's       *)
(* callback fires in between.                                              *)

TimerFiles ==
  {[readable |-> TRUE, rows |-> Cycle(<<rowMath, rowGeo>>, n)] : n \in 0..MaxRows}

NextTimer ==
  \/ \E f \in TimerFiles : selectCSVFileResume([kind |-> "path", file |-> f], 1)
  \/ loads = <<>> /\ selectCSVFile
  \/ onData(1)
  \/ onEnd(1)
  \/ prevClick
  \/ nextClick
  \/ \E i \in 1..Len(letters) : optionClick(i)
  \/ \E i \in 1..Len(groupOptions) : groupSelectChange(groupOptions[i])
  \/ tick

SpecTimer == InitLoad /\ [][NextTimer]_vars

(* SpecOverlap: the user picks a file again while the stream of the file   *)
(* picked before is still open: up to two streams deliver their rows in    *)
(* any interleaving, and each is read to its end.                          *)

OverlapFiles ==
  {[readable |-> TRUE, rows |-> rs] : rs \in SeqsUpTo({rowMath, rowGeo}, MaxRows)}

NextOverlap ==
  \/ selectCSVFile
  \/ \E reply \in RepliesOf(OverlapFiles) : selectCSVFileResume(reply, 2)
  \/ \E k \in 1..2 : onData(k)
  \/ \E k \in 1..2 : onEnd(k)

SpecOverlap == Init /\ [][NextOverlap]_vars

(* SpecQuiz: one file is loaded on a fresh page and the user then plays on *)
(* it: filters by group, moves, answers.  The files hold up to             *)
(* MaxGroupRows valid rows of two groups and of no group, so that a group  *)
(* can hold several questions with others in between.                      *)

GroupRows == {rowMath, rowGeo, rowNoGroup}

GroupFiles ==
  {[readable |-> TRUE, rows |-> rs] : rs \in SeqsUpTo(GroupRows, MaxGroupRows)}

NextQuiz ==
  \/ \E f \in GroupFiles : selectCSVFileResume([kind |-> "path", file |-> f], 1)
  \/ onData(1)
  \/ onEnd(1)
  \/ loads = <<>> /\ prevClick
  \/ loads = <<>> /\ nextClick
  \/ \E i \in 1..Len(letters) : loads = <<>> /\ optionClick(i)
  \/ \E i \in 1..Len(groupOptions) : loads = <<>> /\ groupSelectChange(groupOptions[i])

SpecQuiz == InitLoad /\ [][NextQuiz]_vars

----------------------------------------------------------------------------
(* The claims. *)

\* the part of a question object the file determines
content(q) ==
  [ questionText |-> q.questionText, options |-> q.options,
    correctAnswer |-> q.correctAnswer, group |-> q.group ]

contents(qs) == [i \in 1..Len(qs) |-> content(qs[i])]

AnswerLetters == { <<"A">>, <<"B">>, <<"C">>, <<"D">> }

\* a row none of whose first six fields is missing and whose answer letter,
\* trimmed and upper-cased, is A, B, C or D
ValidRow(row) ==
  /\ Len(row) >= 6
  /\ \A i \in 1..6 : row[i] # <<>>
  /\ toUpperCase(trim(row[6])) \in AnswerLetters

\* the question a valid row stands for: its fields trimmed, in positional order
QuestionOf(row) ==
  [ questionText |-> trim(row[1]),
    options |-> <<trim(row[2]), trim(row[3]), trim(row[4]), trim(row[5])>>,
    correctAnswer |-> toUpperCase(trim(row[6])),
    group |-> IF Len(row) >= 7 /\ row[7] # <<>> THEN trim(row[7]) ELSE All ]

ValidQuestionsOf(rows) ==
  LET valid == SelectSeq(rows, ValidRow)
  IN  [i \in 1..Len(valid) |-> QuestionOf(valid[i])]

\* every question of the active set had one of its options pressed while it
\* was displayed, since the set was installed
AllClicked == \A i \in 1..Len(questions) : questions[i].oid \in clicked

\* no load is under way and the active set is one a load or a group-filter
\* change made out of allQuestions
Installed ==
  /\ loads = <<>>
  /\ Len(questions) >= 1
  /\ oidsOf(questions) \subseteq oidsOf(allQuestions)

\* C1: at most one file-picker request is outstanding at any time, the
\* dialog flag is true exactly while one is outstanding (so it is false once
\* the reply has settled), and a selectCSVFile call made while a request is
\* outstanding therefore returns without invoking the picker.
C1_DialogSerialized ==
  /\ ipcPending <= 1
  /\ isDialogOpen <=> (ipcPending = 1)
  /\ (last.op = "selectCSVFile" /\ last.invoked) => ipcPending = 1

\* a second selectCSVFile call arrived while the first awaits the picker
C1_Witness ==
  /\ last.op = "selectCSVFile"
  /\ ~last.invoked
  /\ isDialogOpen
  /\ ipcPending = 1

\* C2: once the user has pressed an option on every question of a loaded
\* active set of N >= 1 questions, reaching them with next/previous, the
\* answer timer is stopped.
C2_TimerStopsWhenAllAnswered ==
  (last.op = "checkAnswer" /\ Installed /\ AllClicked)
    => timerInterval = NULL

\* C3: checkAnswer stops the answer timer only when every question of the
\* current active set has been answered since the set was installed.
C3_TimerNotStoppedEarly ==
  [][(last'.op = "checkAnswer" /\ Installed /\ timerInterval # NULL /\ timerInterval' = NULL)
       => AllClicked']_vars

\* C4: within a play session on an installed set, correctCount +
\* incorrectCount is the number of distinct questions answered so far.
C4_ScoreCountsDistinctQuestions ==
  Installed => correctCount + incorrectCount = Cardinality(clicked)

\* C5: a loadQuestions call whose file cannot be read leaves allQuestions,
\* the active set, the index and both counters as they were before the call.
C5_FailedLoadKeepsState ==
  [][(last'.op = "loadQuestions" /\ last'.promise = "rejected")
       => /\ questions' = questions
          /\ allQuestions' = allQuestions
          /\ currentQuestionIndex' = currentQuestionIndex
          /\ correctCount' = correctCount
          /\ incorrectCount' = incorrectCount]_vars

\* C6: when the CSV file cannot be read, the promise loadQuestions returns
\* is rejected: by the call itself when readFileSync throws, by the 'error'
\* handler when the stream fails; it is neither resolved nor left pending.
C6_ReadFailureRejects ==
  /\ (last.op = "loadQuestions" /\ ~last.load.file.readable) => last.promise = "rejected"
  /\ last.op = "error" => last.promise = "rejected"

\* readFileSync threw and the promise is rejected
C6_Witness ==
  /\ last.op = "loadQuestions"
  /\ ~last.load.file.readable
  /\ last.promise = "rejected"

\* C7: a load skips every row that misses one of the first six fields or
\* whose answer letter is not A-D, and goes on: when it ends, the loaded set
\* is exactly the valid rows of the file, in file order (so malformed rows
\* mixed with one valid row give a set of length 1).
C7_InvalidRowsSkipped ==
  (last.op = "end" /\ last.load.alone /\ last.load.quiet)
    => /\ last.promise = "resolved"
       /\ contents(questions) = ValidQuestionsOf(last.load.file.rows)

\* a malformed row and a valid row were read, one question is loaded
C7_Witness ==
  /\ last.op = "end"
  /\ Len(last.load.file.rows) = 2
  /\ ~ValidRow(last.load.file.rows[1])
  /\ ValidRow(last.load.file.rows[2])
  /\ Len(questions) = 1

\* C8: a file of one well-formed row (q,o1,o2,o3,o4,L,g), L one of A-D in
\* either case, loads as exactly one question: text and options the trimmed
\* cells in positional order, correctAnswer the upper-cased L, group the
\* trimmed g, or "All" when the row has no g.
C8_SingleRowRoundTrip ==
  (/\ last.op = "end"
   /\ Len(last.load.file.rows) = 1
   /\ Len(last.load.file.rows[1]) \in {6, 7}
   /\ \A i \in 1..5 : trim(last.load.file.rows[1][i]) # <<>>
   /\ toUpperCase(trim(last.load.file.rows[1][6])) \in AnswerLetters)
    => LET row == last.load.file.rows[1] IN
       /\ Len(questions) = 1
       /\ questions[1].questionText = trim(row[1])
       /\ questions[1].options = <<trim(row[2]), trim(row[3]), trim(row[4]), trim(row[5])>>
       /\ questions[1].correctAnswer = toUpperCase(trim(row[6]))
       /\ questions[1].group = IF Len(row) = 7 /\ row[7] # <<>> THEN trim(row[7]) ELSE All

\* a row spelling its answer letter "b" was loaded as a question with answer "B"
C8_Witness ==
  /\ last.op = "end"
  /\ Len(last.load.file.rows) = 1
  /\ Len(last.load.file.rows[1]) = 7
  /\ last.load.file.rows[1][6] = <<"b">>
  /\ Len(questions) = 1
  /\ questions[1].correctAnswer = <<"B">>

\* C9: a load of a file none of whose rows is valid ends successfully: the
\* promise is resolved, with the active set, which is empty, and #feedback
\* holds exactly one notice, "No valid questions found ...".
C9_EmptyLoadResolves ==
  (last.op = "end" /\ last.load.alone /\ ValidQuestionsOf(last.load.file.rows) = <<>>)
    => /\ last.promise = "resolved"
       /\ questions = <<>>
       /\ feedback = <<NoValidQuestions>>

\* a file with a malformed row and no valid one was read to its end
C9_Witness ==
  /\ last.op = "end"
  /\ last.load.file.rows # <<>>
  /\ ValidQuestionsOf(last.load.file.rows) = <<>>
  /\ feedback = <<NoValidQuestions>>

\* C10: when a load of a file with a valid row ends and nothing else ran in
\* between, the active set and allQuestions are both the validated rows,
\* the index and both counters are 0 and no question is marked answered.
C10_LoadInstallsFreshState ==
  (/\ last.op = "end"
   /\ last.load.alone
   /\ last.load.quiet
   /\ ValidQuestionsOf(last.load.file.rows) # <<>>)
    => /\ contents(questions) = ValidQuestionsOf(last.load.file.rows)
       /\ allQuestions = questions
       /\ currentQuestionIndex = 0
       /\ correctCount = 0
       /\ incorrectCount = 0
       /\ \A i \in 1..Len(questions) : questions[i].oid \notin userAnswered

\* an undisturbed load of a two-question file has ended
C10_Witness ==
  /\ last.op = "end"
  /\ last.load.alone
  /\ last.load.quiet
  /\ Len(questions) = 2
  /\ allQuestions = questions

\* where the question object q stands in the array all
positionIn(all, q) == CHOOSE k \in 1..Len(all) : all[k].oid = q.oid

\* qs holds exactly the questions of all whose group is label, each once,
\* in the order they have in all
IsGroupOf(qs, all, label) ==
  /\ \A i \in 1..Len(qs) :
       /\ qs[i].group = label
       /\ \E k \in 1..Len(all) : all[k] = qs[i]
  /\ \A k \in 1..Len(all) :
       all[k].group = label => \E i \in 1..Len(qs) : qs[i] = all[k]
  /\ \A i, j \in 1..Len(qs) :
       i < j => positionIn(all, qs[i]) < positionIn(all, qs[j])

\* C11: picking a group label other than "All" makes the active set exactly
\* the questions of allQuestions with that group, in their original
\* relative order, and leaves allQuestions as it was.
C11_FilterSelectsGroup ==
  [][(last'.op = "groupChange" /\ groupValue' # All)
       => /\ IsGroupOf(questions', allQuestions, groupValue')
          /\ allQuestions' = allQuestions]_vars

\* a label was picked whose two questions have another question between
\* them in allQuestions
C11_Witness ==
  /\ last.op = "groupChange"
  /\ groupValue # All
  /\ Len(allQuestions) = 3
  /\ questions = <<allQuestions[1], allQuestions[3]>>

\* C12: after the filter "All" the active set is allQuestions, same length
\* and order, whatever filter changes came before; and running the "All"
\* filter again on the result changes nothing.
C12_AllRestoresLoadedSet ==
  /\ (last.op = "groupChange" /\ groupValue = All) => questions = allQuestions
  /\ LET once == changeListener([State EXCEPT !.groupValue = All])
     IN  /\ once.questions = allQuestions
         /\ changeListener(once) = once

\* a label was picked and then "All": the three loaded questions are back
C12_Witness ==
  /\ last.op = "groupChange"
  /\ groupValue = All
  /\ Len(questions) = 3
  /\ questions = allQuestions
  /\ Len(groupOptions) >= 2

\* the first question of allQuestions that carries the label
firstSeen(label) ==
  CHOOSE k \in 1..Len(allQuestions) :
    /\ allQuestions[k].group = label
    /\ \A m \in 1..(k - 1) : allQuestions[m].group # label

C14_IndexInRange ==
  questions # <<>> =>
    (0 <= currentQuestionIndex /\ currentQuestionIndex < Len(questions))

\* Next was pressed on the last of two questions and the index stayed
C14_Witness ==
  /\ last.op = "next"
  /\ Len(questions) = 2
  /\ currentQuestionIndex = 1
  /\ rendered.oid = questions[2].oid
  /\ rendered.disabled

\* C18: at most one interval is scheduled at any time, and it is the one
\* timerInterval holds; a start while the timer runs clears the running
\* interval before it creates the new one.
C18_OneInterval ==
  /\ Cardinality(intervals) <= 1
  /\ timerInterval = NULL => intervals = {}
  /\ timerInterval # NULL => intervals = {timerInterval}

\* a group change on a running timer: displayQuestion(0) and the listener
\* both started the timer, one interval is scheduled
C18_Witness ==
  /\ last.op = "groupChange"
  /\ Len(questions) >= 1
  /\ timerInterval # NULL
  /\ Cardinality(intervals) = 1

\* C19: the dialog flag is cleared by every settlement of the file-picker
\* request, a path, null or a rejection: with no request outstanding the
\* flag is false, and a selectCSVFile call is turned away only while a
\* request is outstanding.
C19_FlagClearedOnSettlement ==
  /\ ipcPending = 0 => ~isDialogOpen
  /\ last.op \in {"loadQuestions", "dialogCancelled", "dialogFailed"} => ~isDialogOpen
  /\ (ipcRenderer /\ last.op = "selectCSVFile" /\ ~last.invoked) => ipcPending >= 1

\* the file picker's request was rejected and the flag is cleared
C19_Witness ==
  /\ last.op = "dialogFailed"
  /\ ipcPending = 0
  /\ ~isDialogOpen

\* C15: displayQuestion(index) with index < 0 or index >= questions.length
\* throws nothing and leaves the index, both counters, every answered mark
\* and the timer as they were.
C15_OutOfRangeShowIsNoOp ==
  [][(last'.op = "displayQuestion" /\ (last'.index < 0 \/ last'.index >= Len(questions)))
       => /\ ~last'.threw
          /\ UNCHANGED <<currentQuestionIndex, correctCount, incorrectCount,
                         userAnswered, timerInterval, timerElapsed, intervals>>]_vars

\* displayQuestion(2) was called on two questions with the timer running
C15_Witness ==
  /\ document
  /\ last.op = "displayQuestion"
  /\ Len(questions) = 2
  /\ last.index = 2
  /\ timerInterval # NULL
  /\ rendered = NoRender

\* C16: with document undefined, displayQuestion and checkAnswer throw
\* nothing and change nothing: counters, answered marks, index, timer and
\* the rest of the quiz state are after the call what they were before.
C16_NoDocumentNoEffect ==
  [][(~document /\ last'.op \in {"displayQuestion", "checkAnswer"})
       => /\ ~last'.threw
          /\ UNCHANGED quizVars]_vars

\* checkAnswer was called without document on a loaded quiz whose timer runs
C16_Witness ==
  /\ ~document
  /\ last.op = "checkAnswer"
  /\ Len(questions) = 2
  /\ timerInterval # NULL
  /\ rendered.oid = questions[1].oid
  /\ ~rendered.disabled

PublicOperations ==
  { "loadQuestions", "displayQuestion", "checkAnswer", "resetScore", "updateCounter",
    "startTimer", "stopTimer", "resetTimer", "selectCSVFile" }

\* C17: with document undefined, none of the public operations throws or
\* returns a promise that is rejected (loadQuestions being given a file
\* that can be read).
C17_HeadlessOperationsAreNoOps ==
  (/\ ~document
   /\ last.op \in PublicOperations
   /\ last.op = "loadQuestions" => last.load.file.readable)
    => (~last.threw /\ last.promise # "rejected")

\* C20: when the file picker returns null, when its request is rejected,
\* and when there is no ipcRenderer, selectCSVFile starts no load, its own
\* promise is fulfilled, and the sets, the index, the counters, the answered
\* marks and the timer stay as they were.
C20_NoPathNoLoad ==
  [][(\/ last'.op \in {"dialogCancelled", "dialogFailed"}
      \/ (~ipcRenderer /\ last'.op = "selectCSVFile"))
       => /\ last'.promise = "resolved"
          /\ ~last'.threw
          /\ loads' = loads
          /\ ~ipcRenderer => (~last'.invoked /\ ipcPending' = ipcPending)
          /\ UNCHANGED <<questions, allQuestions, currentQuestionIndex, correctCount,
                         incorrectCount, userAnswered, timerInterval, timerElapsed,
                         intervals>>]_vars

\* the picker was cancelled on a loaded quiz with an answer given
C20_Witness ==
  /\ last.op = "dialogCancelled"
  /\ Len(questions) >= 1
  /\ allQuestions = questions
  /\ correctCount + incorrectCount >= 1
  /\ timerInterval # NULL

\* C21: checkAnswer marks as answered the question that is displayed, the
\* one at the position next/previous have reached, and no other question.
C21_MarksDisplayedQuestion ==
  [][(last'.op = "checkAnswer" /\ Installed /\ ~last'.threw)
       => userAnswered' = userAnswered \cup {questions[currentQuestionIndex + 1].oid}]_vars

\* C22: with a document, every checkAnswer(selected, correct) call adds
\* exactly 1 to exactly one counter, correctCount when selected = correct
\* and incorrectCount otherwise, and leaves the other counter and the index
\* as they were, also when the question is already marked answered.
C22_EveryCallCounts ==
  [][(document /\ last'.op = "checkAnswer")
       => /\ currentQuestionIndex' = currentQuestionIndex
          /\ IF last'.match
             THEN correctCount' = correctCount + 1 /\ incorrectCount' = incorrectCount
             ELSE incorrectCount' = incorrectCount + 1 /\ correctCount' = correctCount]_vars

\* the only question of the set was answered twice, once right and once
\* wrong: both calls counted
C22_Witness ==
  /\ document
  /\ last.op = "checkAnswer"
  /\ Len(questions) = 1
  /\ userAnswered = {questions[1].oid}
  /\ correctCount = 1
  /\ incorrectCount = 1

\* C23: on an incorrect selection the notification names the correct letter
\* and the text of that option of the displayed question, the one at the
\* position the user has navigated to.
C23_NotificationNamesCorrectOption ==
  (last.op = "checkAnswer" /\ ~last.match /\ ~last.threw /\ Installed)
    => LET q == questions[currentQuestionIndex + 1]
       IN  last.message = Incorrect \o q.correctAnswer \o <<")", " ">>
                            \o q.options[indexOf(letters, q.correctAnswer) + 1]

\* C24: after every group-filter change, to "All" or to a label, the index
\* and both counters are 0, question 0 of the new active set is displayed
\* (nothing when the set is empty), and the answer timer runs with 0
\* seconds elapsed.
C24_FilterChangeRestarts ==
  last.op = "groupChange"
    => /\ currentQuestionIndex = 0
       /\ correctCount = 0
       /\ incorrectCount = 0
       /\ IF questions = <<>>
          THEN rendered = NoRender
          ELSE /\ rendered.oid = questions[1].oid
               /\ rendered.questionText = questions[1].questionText
               /\ ~rendered.disabled
       /\ timerInterval # NULL
       /\ timerElapsed = 0

\* a label was picked on a two-question set one of whose questions had been
\* answered: the score is 0 again and the timer runs from 0
C24_Witness ==
  /\ last.op = "groupChange"
  /\ groupValue # All
  /\ Len(allQuestions) = 2
  /\ Len(questions) = 1
  /\ userAnswered # {}
  /\ correctCount + incorrectCount = 0
  /\ timerInterval # NULL
  /\ timerElapsed = 0

\* C25: a group-filter change leaves the answered mark of every question
\* of allQuestions that is outside the new active set as it was.
C25_FilterKeepsOutsideMarks ==
  [][last'.op = "groupChange"
       => \A k \in 1..Len(allQuestions') :
            allQuestions'[k].oid \notin oidsOf(questions')
              => (allQuestions'[k].oid \in userAnswered'
                    <=> allQuestions'[k].oid \in userAnswered)]_vars

\* a label was picked and a question outside the new active set carries
\* the mark it got before
C25_Witness ==
  /\ last.op = "groupChange"
  /\ groupValue # All
  /\ \E k \in 1..Len(allQuestions) :
       /\ allQuestions[k].oid \notin oidsOf(questions)
       /\ allQuestions[k].oid \in userAnswered

\* C26: Previous at index 0 and Next at the last question (or on an empty
\* set) change nothing: index, displayed question, counters, answered marks
\* and timer stay as they are.  Elsewhere they move the index by exactly
\* one, down or up, and leave the counters and the answered marks alone.
C26_NavigationFrame ==
  [][/\ last'.op = "prev"
          => IF currentQuestionIndex = 0
             THEN UNCHANGED <<currentQuestionIndex, rendered, correctCount, incorrectCount,
                              userAnswered, timerInterval, timerElapsed, intervals>>
             ELSE /\ currentQuestionIndex' = currentQuestionIndex - 1
                  /\ UNCHANGED <<correctCount, incorrectCount, userAnswered>>
     /\ last'.op = "next"
          => IF currentQuestionIndex >= Len(questions) - 1
             THEN UNCHANGED <<currentQuestionIndex, rendered, correctCount, incorrectCount,
                              userAnswered, timerInterval, timerElapsed, intervals>>
             ELSE /\ currentQuestionIndex' = currentQuestionIndex + 1
                  /\ UNCHANGED <<correctCount, incorrectCount, userAnswered>>]_vars

\* Previous was pressed on the first of two questions, answered, with the
\* clock past 0: the buttons are still disabled and the clock was not reset
C26_Witness ==
  /\ last.op = "prev"
  /\ Len(questions) = 2
  /\ currentQuestionIndex = 0
  /\ rendered.oid = questions[1].oid
  /\ rendered.disabled
  /\ timerInterval # NULL
  /\ timerElapsed > 0

\* C27: resetScore sets both counters to 0 and leaves the index, the active
\* set, allQuestions, every answered mark and the timer as they were.
C27_ResetScoreFrame ==
  [][last'.op = "resetScore"
       => /\ correctCount' = 0
          /\ incorrectCount' = 0
          /\ UNCHANGED <<currentQuestionIndex, questions, allQuestions, userAnswered,
                         timerInterval, timerElapsed, intervals>>]_vars

\* resetScore was called on a loaded quiz with an answered question and the
\* timer running
C27_Witness ==
  /\ last.op = "resetScore"
  /\ document
  /\ Len(questions) = 2
  /\ allQuestions = questions
  /\ userAnswered # {}
  /\ timerInterval # NULL
  /\ correctCount = 0
  /\ incorrectCount = 0

\* C28: the answer timer is started or restarted only by a load or a
\* group-filter change, never by Previous or Next: on an installed set they
\* leave a running timer and its seconds as they are, and once the timer
\* has stopped with every question of the set answered, it starts running
\* again only through a load or a filter change.
C28_TimerStartedOnlyByLoadOrFilter ==
  [][Installed
       => /\ (timerInterval # NULL /\ last'.op \in {"prev", "next"})
               => UNCHANGED <<timerInterval, timerElapsed, intervals>>
          /\ (AllClicked /\ timerInterval = NULL /\ timerInterval' # NULL)
               => last'.op \in {"end", "groupChange"}]_vars

\* C29: when a load has ended, undisturbed, the answer timer runs if and
\* only if the loaded set is not empty: after a load that ends with no valid
\* question the timer is idle, also when it was running before that load.
C29_TimerRunsIffLoaded ==
  (last.op = "end" /\ last.load.alone /\ last.load.quiet)
    => (timerInterval # NULL <=> questions # <<>>)

\* C30: when a load was started while the stream of an earlier load was
\* still open, then once both have ended the active set and allQuestions
\* hold exactly the validated rows of the file requested last, and no row
\* of the other file.
C30_OverlappingLoadsInstallOneFile ==
  (/\ last.op = "end"
   /\ loads = <<>>
   /\ ~last.load.alone
   /\ last.load.latest.readable)
    => /\ contents(questions) = ValidQuestionsOf(last.load.latest.rows)
       /\ contents(allQuestions) = ValidQuestionsOf(last.load.latest.rows)

\* C31: the user's events during a load (Previous, Next, an option of the
\* question rendered before, a filter change) do not alter its outcome:
\* when the load of a file with a valid row ends, the active set is the
\* validated rows, the index and both counters are 0, question 0 is
\* displayed and the timer runs.
C31_EventsDuringLoadHarmless ==
  (/\ last.op = "end"
   /\ last.load.alone
   /\ ValidQuestionsOf(last.load.file.rows) # <<>>)
    => /\ contents(questions) = ValidQuestionsOf(last.load.file.rows)
       /\ currentQuestionIndex = 0
       /\ correctCount = 0
       /\ incorrectCount = 0
       /\ rendered.oid = questions[1].oid
       /\ timerInterval # NULL

\* C32: within a load, nothing is rendered and no group label is published
\* while rows are being parsed: the call and every 'data' event leave the
\* displayed question and the group list as they are, and the 'end' event,
\* which rebuilds the list and shows the question, comes after the last row.
C32_RenderOnlyAtEnd ==
  [][/\ last'.op \in {"loadQuestions", "data"}
          => UNCHANGED <<rendered, groupOptions, groupValue, feedback>>
     /\ last'.op = "end"
          => last'.load.pos = Len(last'.load.file.rows)]_vars

\* the first of two rows has been parsed on a fresh page: nothing is
\* displayed and the group list is empty
C32_Witness ==
  /\ last.op = "data"
  /\ Len(loads) = 1
  /\ loads[1].pos = 1
  /\ Len(loads[1].file.rows) = 2
  /\ Len(questions) = 1
  /\ rendered = NoRender
  /\ groupOptions = <<>>

\* C33: every question a load installs has a non-empty text, exactly four
\* non-empty options and an answer letter among A, B, C, D; a row with a
\* required cell that is empty after trimming is not installed.
C33_InstalledQuestionsWellFormed ==
  last.op = "end"
    => \A i \in 1..Len(questions) :
         /\ questions[i].questionText # <<>>
         /\ Len(questions[i].options) = 4
         /\ \A j \in 1..4 : questions[i].options[j] # <<>>
         /\ questions[i].correctAnswer \in AnswerLetters

\* C34: whenever no load is under way the active set is allQuestions or
\* exactly the questions of allQuestions with one group label, in their
\* order; it holds no question that is not in allQuestions.
C34_ActiveSetFromAllQuestions ==
  loads = <<>>
    => /\ oidsOf(questions) \subseteq oidsOf(allQuestions)
       /\ \/ questions = allQuestions
          \/ \E k \in 1..Len(allQuestions) :
               IsGroupOf(questions, allQuestions, allQuestions[k].group)

\* C35: displayQuestion(index) with index < 0 or index >= questions.length
\* leaves the page as it was: the question text and the option buttons
\* displayed before the call are displayed after it.
C35_OutOfRangeShowKeepsPage ==
  [][(document /\ last'.op = "displayQuestion" /\ rendered.buttons # <<>>
        /\ (last'.index < 0 \/ last'.index >= Len(questions)))
       => rendered' = rendered]_vars

\* C36: no tick is delivered after the timer was stopped: while the timer
\* stays stopped, by stopTimer or by checkAnswer on the last unanswered
\* question, the seconds it shows do not change.
C36_NoTickAfterStop ==
  [][(timerInterval = NULL /\ timerInterval' = NULL)
       => /\ timerElapsed' = timerElapsed
          /\ last'.op # "tick"]_vars

\* the only question was answered one second after the start: the timer
\* is stopped, no interval is left and the clock shows 1
C36_Witness ==
  /\ last.op = "checkAnswer"
  /\ Len(questions) = 1
  /\ AllClicked
  /\ timerInterval = NULL
  /\ intervals = {}
  /\ timerElapsed = 1

\* C37: with the page available, a click on a displayed option control
\* completes without throwing, and changes a counter only when the active
\* set is not empty; this covers controls left from an earlier set after
\* a load that ended empty, failed or is still running.
C37_OptionClickNeverThrows ==
  [][(document /\ last'.op = "checkAnswer")
       => /\ ~last'.threw
          /\ questions = <<>>
               => /\ correctCount' = correctCount
                  /\ incorrectCount' = incorrectCount]_vars

\* C38: after every load, whether it installed questions, found none or
\* failed, every label the group selector offers other than "All" is the
\* group of at least one question of allQuestions; so picking an offered
\* label never leaves an empty active set with the timer running.
C38_OfferedLabelsAreLoadedGroups ==
  /\ (document /\ loads = <<>> /\ last.op \in {"end", "error", "loadQuestions"})
       => \A i \in 1..Len(groupOptions) :
            \/ groupOptions[i] = All
            \/ \E k \in 1..Len(allQuestions) : allQuestions[k].group = groupOptions[i]
  /\ (document /\ last.op = "groupChange")
       => ~(questions = <<>> /\ timerInterval # NULL)

====
